---- MODULE Spec2Model ----
(***************************************************************************)
(* A model of the CH8803 transmitter driver (src/src/ch8803.rs): the frame *)
(* encoder of Transmitter::send_command and trbits, the repeat loop that   *)
(* is bounded by the clock, and the pulse driver send_timing.              *)
(*                                                                         *)
(* Time is in microseconds.  delay_us(d) advances the clock by d; every    *)
(* other cost of running the code (pin writes, loop overhead, a delay that *)
(* overshoots) is the lag the clock is seen to have gained at the next     *)
(* now() reading of the repeat loop.                                       *)
(***************************************************************************)
EXTENDS Integers, Sequences, FiniteSets, TLC

\* ------------------------------------------------------------- constants
PULSE_LEN == 1016
ZERO_LEN == 292
ONE_LEN == 804
BufLen == 128
Shock == 1
Vibrate == 2
Beep == 3
NoSession == 0 - 1
NoRaw == 0 - 1
NoMs == 0 - 1
U8 == 256

\* ---------------------------------------------------------------- bounds
\* command calls in one behaviour
MaxCalls == 2

\* inputs of the full specification
Ids == {3365}
Strengths == {0, 255}
Durations == {0, 1, 47445}
MsDurations == {0, 4294968}
RawChannels == 0..3
\* what the clock may have gained, beyond the time spent inside delay_us,
\* when the repeat loop reads it
Lags == {0, 1}
\* inputs of the encoder specification
EncIds == {0, 3365, 255, 65280, 32769, 65535}
EncStrengths == {0, 1, 99, 100, 127, 128, 254, 255}

VARIABLES id, session, pc, chan, cmd, strength, duration, checksum,
          timings, idx, hi, end, clock, level, k, pin, log,
          frames, started, ops, ncalls, t0, t1, tsent,
          asked, askedMs, kept, raw, live, failed

vars == <<id, session, pc, chan, cmd, strength, duration, checksum,
          timings, idx, hi, end, clock, level, k, pin, log,
          frames, started, ops, ncalls, t0, t1, tsent,
          asked, askedMs, kept, raw, live, failed>>

\* hi: the highest index of timings written in the current call
encoderVars == <<chan, cmd, strength, duration, checksum, timings, idx, hi>>
\* what the caller did: the arguments of the last command method (asked),
\* the milliseconds given to a _ms wrapper (askedMs), the frame and the
\* arguments of the call before (kept), the last selector given to
\* channel() (raw), the ChannelTransmitter values alive (live), and whether
\* a pin operation of the current call returned an error (failed)
callerVars == <<asked, askedMs, kept, raw, live, failed>>
driverVars == <<level, k, pin, log>>
ghostVars == <<frames, started, ops, ncalls, t0, t1, tsent>>

\* ------------------------------------------------------- pure functions
\* a conversion that lets the selector 3 through
ValidChannelLoose(value) == value \in {0, 1, 2, 3}

\* impl From<u8> for Channel: the wire code, or a panic
ValidChannel(value) == value \in {0, 1, 2}

\* a checksum that saturates at 255 instead of wrapping
saturating_add(a, b) == IF a + b > 255 THEN 255 ELSE a + b

\* u8::wrapping_add
wrapping_add(a, b) == (a + b) % U8

\* the checksum of send_command
Checksum(i, ch, command, s) ==
    wrapping_add(
        wrapping_add(
            wrapping_add(
                wrapping_add((i \div 256) % U8, i % U8),
                ch),
            command),
        s)

\* a zero bit given the short half of a one bit as its first entry
BitLenSwapped(val, i) ==
    LET bit_set == (val \div (2 ^ i)) % 2 # 0
    IN  IF bit_set THEN ONE_LEN ELSE PULSE_LEN - ONE_LEN

\* a one bit whose first entry takes the whole pulse, leaving 0 for the second
BitLenFull(val, i) ==
    LET bit_set == (val \div (2 ^ i)) % 2 # 0
    IN  IF bit_set THEN PULSE_LEN ELSE ZERO_LEN

\* one iteration of the loop of trbits, for bit number i of val
BitLen(val, i) ==
    LET bit_set == (val \div (2 ^ i)) % 2 # 0
    IN  IF bit_set THEN ONE_LEN ELSE ZERO_LEN

\* the larger of two indices
Max(a, b) == IF a >= b THEN a ELSE b

\* a write that moves the index on by two
PutSkip(st, v) ==
    LET written == {[timings |-> [s.timings EXCEPT ![s.idx + 1] = v],
                     idx |-> s.idx + 2,
                     hi |-> Max(s.hi, s.idx)] : s \in {st}}
    IN  CHOOSE after \in written : TRUE

\* timings[*idx] = v; *idx += 1
Put(st, v) ==
    LET written == {[timings |-> [s.timings EXCEPT ![s.idx + 1] = v],
                     idx |-> s.idx + 1,
                     hi |-> Max(s.hi, s.idx)] : s \in {st}}
    IN  CHOOSE after \in written : TRUE

RECURSIVE trbitsFrom(_, _, _)
trbitsFrom(val, n, st) ==
    IF n = 0 THEN st
    ELSE LET len == BitLen(val, n - 1)
         IN  trbitsFrom(val, n - 1, Put(Put(st, len), PULSE_LEN - len))

\* trbits walking the bits from the least significant one up
RECURSIVE trbitsLsbFrom(_, _, _, _)
trbitsLsbFrom(val, i, bits, st) ==
    IF i = bits THEN st
    ELSE LET len == BitLen(val, i)
         IN  trbitsLsbFrom(val, i + 1, bits,
                           Put(Put(st, len), PULSE_LEN - len))

trbitsLsbFirst(val, bits, st) == trbitsLsbFrom(val, 0, bits, st)

\* trbits leaving out the zero bits above the highest set bit
RECURSIVE Width(_, _)
Width(val, bits) ==
    IF bits = 0 \/ (val \div (2 ^ (bits - 1))) % 2 # 0
    THEN bits
    ELSE Width(val, bits - 1)

trbitsSignificant(val, bits, st) == trbitsFrom(val, Width(val, bits), st)

\* Transmitter::trbits: bits `bits-1` down to 0 of val, two entries each
trbits(val, bits, st) == trbitsFrom(val, bits, st)

\* Duration::millis on the u32 microsecond Duration: ms * 1000 in 32 bits.
\* 2^32 = 1000 * 4294967 + 296, so with ms = 4294967 * a + b the product is
\* 1000 * b - 296 * a modulo 2^32; the values of MsDurations keep that
\* difference inside 0 .. 2^31 - 1, where it is the wrapped product itself.
MsWrap == 4294967
MillisOverflows(ms) == ms > MsWrap
Millis(ms) == 1000 * (ms % MsWrap) - 296 * (ms \div MsWrap)

\* &timings[..idx], its length and its i-th item (i from 0, below idx)
Slice == SubSeq(timings, 1, idx)
SliceLen == idx
Item(i) == timings[i + 1]

\* the time one pass over the frame holds the pin: the sum of its entries
RECURSIVE SumItems(_)
SumItems(n) == IF n = 0 THEN 0 ELSE Item(n - 1) + SumItems(n - 1)

FrameTime == SumItems(SliceLen)

\* a loop over the frame that also stops once the deadline has passed
HasNextBeforeEnd == k < SliceLen /\ Item(k) # 0 /\ clock < end

\* timings.iter().take_while(|t| t != 0): is there a k-th item
HasNext == k < SliceLen /\ Item(k) # 0

\* ------------------------------------------------------------------ Init
\* no command method called yet, no call before this one
NoCall == [method |-> "none", strength |-> 0, duration |-> 0]
NoFrame == [frame |-> <<>>, chan |-> 0, cmd |-> 0, strength |-> 0]

InitWith(S) ==
    /\ id \in S
    /\ session = NoSession
    /\ pc = "idle"
    /\ chan = 0
    /\ cmd = 0
    /\ strength = 0
    /\ duration = 0
    /\ checksum = 0
    /\ timings = [i \in 1..BufLen |-> 0]
    /\ idx = 0
    /\ end = 0
    /\ clock = 0
    /\ level = FALSE
    /\ k = 0
    /\ pin = "unset"
    /\ log = <<>>
    /\ frames = 0
    /\ started = 0
    /\ ops = 0
    /\ ncalls = 0
    /\ t0 = 0
    /\ t1 = 0
    /\ tsent = 0
    /\ hi = 0 - 1
    /\ asked = NoCall
    /\ askedMs = NoMs
    /\ kept = NoFrame
    /\ raw = NoRaw
    /\ live = 0
    /\ failed = FALSE

Init == InitWith(Ids)

\* --------------------------------------------------------------- actions
\* Transmitter::channel(n): the session borrows the transmitter
channel(n) ==
    /\ pc = "idle"
    /\ session = NoSession
    /\ raw' = n
    /\ IF ValidChannel(n)
       THEN session' = n /\ pc' = pc /\ live' = live + 1
       ELSE session' = session /\ pc' = "panicked" /\ live' = live
    /\ UNCHANGED <<id, end, clock, asked, askedMs, kept, failed>>
    /\ UNCHANGED encoderVars
    /\ UNCHANGED driverVars
    /\ UNCHANGED ghostVars

\* the session is dropped and the borrow ends
DropSession ==
    /\ pc = "idle"
    /\ session # NoSession
    /\ session' = NoSession
    /\ live' = live - 1
    /\ UNCHANGED <<id, pc, end, clock, asked, askedMs, kept, raw, failed>>
    /\ UNCHANGED encoderVars
    /\ UNCHANGED driverVars
    /\ UNCHANGED ghostVars

\* a send_command that keeps the checksum of the call before it
send_commandStale(ch, command, s, d) ==
    /\ chan' = ch
    /\ cmd' = command
    /\ strength' = s
    /\ duration' = d
    /\ timings' = [i \in 1..BufLen |-> 0]
    /\ checksum' = (IF ncalls > 0 THEN checksum
                    ELSE Checksum(id, ch, command, s))
    /\ idx' = 0
    /\ hi' = 0 - 1
    /\ failed' = FALSE
    /\ pc' = "preamble"
    /\ ncalls' = ncalls + 1
    /\ frames' = 0
    /\ started' = 0
    /\ ops' = 0
    /\ log' = <<>>
    /\ UNCHANGED <<id, session, end, clock, level, k, pin, t0, t1, tsent,
                   raw, live>>

\* entry of send_command: the zeroed buffer, the checksum, idx = 0
send_command(ch, command, s, d) ==
    /\ chan' = ch
    /\ cmd' = command
    /\ strength' = s
    /\ duration' = d
    /\ timings' = [i \in 1..BufLen |-> 0]
    /\ checksum' = Checksum(id, ch, command, s)
    /\ idx' = 0
    /\ hi' = 0 - 1
    /\ failed' = FALSE
    /\ pc' = "preamble"
    /\ ncalls' = ncalls + 1
    /\ frames' = 0
    /\ started' = 0
    /\ ops' = 0
    /\ log' = <<>>
    /\ UNCHANGED <<id, session, end, clock, level, k, pin, t0, t1, tsent,
                   raw, live>>

\* a guard that lets a command start while another is running
CanCallAnytime ==
    /\ pc # "panicked"
    /\ session # NoSession
    /\ ncalls < MaxCalls

CanCall ==
    /\ pc = "idle"
    /\ session # NoSession
    /\ ncalls < MaxCalls

\* a _ms wrapper whose multiplication overflows in a build that checks it
MsPanics ==
    /\ pc' = "panicked"
    /\ UNCHANGED <<id, session, end, clock, asked, raw, live, failed>>
    /\ UNCHANGED encoderVars
    /\ UNCHANGED driverVars
    /\ UNCHANGED ghostVars

\* the arguments a command method was called with
Asked(m, s, d) == [method |-> m, strength |-> s, duration |-> d]

\* a shock that keeps the strength inside the conventional 0..99
shockClamped(s, d) ==
    /\ CanCall
    /\ send_command(session, Shock, IF s > 99 THEN 99 ELSE s, d)
    /\ asked' = Asked("shock", s, d)

shock(s, d) ==
    /\ CanCall
    /\ send_command(session, Shock, s, d)
    /\ asked' = Asked("shock", s, d)

shock_ms(s, ms) ==
    /\ askedMs' = ms
    /\ \/ shock(s, Millis(ms))
       \/ CanCall /\ MillisOverflows(ms) /\ MsPanics

vibrate(s, d) ==
    /\ CanCall
    /\ send_command(session, Vibrate, s, d)
    /\ asked' = Asked("vibrate", s, d)

vibrate_ms(s, ms) ==
    /\ askedMs' = ms
    /\ \/ vibrate(s, Millis(ms))
       \/ CanCall /\ MillisOverflows(ms) /\ MsPanics

\* a beep that passes a strength on
beepStrength(d) ==
    /\ CanCall
    /\ send_command(session, Beep, 1, d)
    /\ asked' = Asked("beep", 0, d)

beep(d) ==
    /\ CanCall
    /\ send_command(session, Beep, 0, d)
    /\ asked' = Asked("beep", 0, d)

beep_ms(ms) ==
    /\ askedMs' = ms
    /\ \/ beep(Millis(ms))
       \/ CanCall /\ MillisOverflows(ms) /\ MsPanics

\* a command method called directly, not through its _ms wrapper
Direct == askedMs' = NoMs

\* the caller keeps no copy of the frame of the call before
Forget == UNCHANGED kept

\* the caller keeps the frame of the call before and what it was built from
Keep ==
    kept' = [frame |-> SubSeq(timings, 1, idx), chan |-> chan, cmd |-> cmd,
             strength |-> strength]

\* one step of the encoder: the buffer and the index change, nothing else
Encode(from, st, to) ==
    /\ pc = from
    /\ timings' = st.timings
    /\ idx' = st.idx
    /\ hi' = st.hi
    /\ pc' = (IF st.hi >= BufLen THEN "panicked" ELSE to)
    /\ UNCHANGED <<id, session, chan, cmd, strength, duration, checksum,
                   end, clock>>
    /\ UNCHANGED driverVars
    /\ UNCHANGED ghostVars
    /\ UNCHANGED callerVars

Buf == [timings |-> timings, idx |-> idx, hi |-> hi]

Preamble ==
    Encode("preamble",
           Put(Put(Put(Buf, 840), 1440), PULSE_LEN - ZERO_LEN),
           "tr_id")

TrId == Encode("tr_id", trbits(id, 16, Buf), "tr_channel")

TrChannel == Encode("tr_channel", trbits(chan, 4, Buf), "tr_command")

TrCommand == Encode("tr_command", trbits(cmd, 4, Buf), "tr_strength")

TrStrength == Encode("tr_strength", trbits(strength, 8, Buf), "tr_checksum")

TrChecksum == Encode("tr_checksum", trbits(checksum, 8, Buf), "tr_pad")

\* padding bits taken from the strength instead of being zero
TrPadStrength == Encode("tr_pad", trbits(strength, 2, Buf), "trailer")

TrPad == Encode("tr_pad", trbits(0, 2, Buf), "trailer")

\* the trailer and the zero sentinel, which idx does not count
Trailer ==
    LET st == Put(Put(Buf, ZERO_LEN), 1476)
    IN  Encode("trailer",
               [timings |-> [st.timings EXCEPT ![st.idx + 1] = 0],
                idx |-> st.idx,
                hi |-> Max(st.hi, st.idx)],
               "deadline")

\* let end = now() + duration: the first reading of the call is the clock
\* as it stands; what it gains until the next reading shows in LoopCheck
ComputeEnd ==
    /\ pc = "deadline"
    /\ end' = clock + duration
    /\ t0' = clock
    /\ pc' = "check"
    /\ UNCHANGED <<id, session, clock, frames, started, ops, ncalls,
                   t1, tsent>>
    /\ UNCHANGED encoderVars
    /\ UNCHANGED callerVars
    /\ UNCHANGED driverVars

\* a loop condition that lets the deadline itself pass
BeforeOrAt(now, deadline) == now <= deadline

\* a loop condition that sends a frame only if all of it fits the window
BeforeWholeFrame(now, deadline) == now + FrameTime < deadline

\* the condition of the repeat loop, on a reading `now`
Before(now, deadline) == now < deadline

\* while now() < end: a second reading of the clock decides
LoopCheck ==
    /\ pc = "check"
    /\ \E lag \in Lags :
        LET now == clock + lag IN
        /\ clock' = now
        /\ t1' = (IF frames = 0 THEN now ELSE t1)
        /\ IF Before(now, end)
           THEN /\ pc' = "send_timing"
                /\ level' = FALSE
                /\ k' = 0
                /\ log' = <<>>
                /\ started' = started + 1
                /\ tsent' = now
           ELSE /\ pc' = "idle"
                /\ UNCHANGED <<level, k, log, started, tsent>>
    /\ UNCHANGED <<id, session, end, pin, frames, ops, ncalls, t0>>
    /\ UNCHANGED encoderVars
    /\ UNCHANGED callerVars

\* an alternation that starts high
PinOpInverted(lv) == IF lv THEN "set_low" ELSE "set_high"

\* the pin operation of one iteration of send_timing
PinOp(lv) == IF lv THEN "set_high" ELSE "set_low"

\* the level a pin operation leaves the pin at
LevelAfter(op) == IF op = "set_high" THEN "high" ELSE "low"

\* if level { set_high } else { set_low }; the result is dropped
SetPin ==
    /\ pc = "send_timing"
    /\ HasNext
    /\ pin' = LevelAfter(PinOp(level))
    /\ log' = Append(log, [op |-> PinOp(level), us |-> 0])
    /\ ops' = ops + 1
    /\ pc' = "delay"
    /\ UNCHANGED <<id, session, end, clock, level, k,
                   frames, started, ncalls, t0, t1, tsent>>
    /\ UNCHANGED encoderVars
    /\ UNCHANGED callerVars

\* an error of the pin handed back to the caller instead of dropped
OnPinErrorPropagate == "propagate"

\* let _ = ...: what send_timing does with the Err of a pin operation
OnPinError == "ignore"

\* where send_timing goes on after a pin operation that returned Err
AfterPinError(to) == IF OnPinError = "ignore" THEN to ELSE "failed"

\* the pin operation of an iteration returns Err: the level of the pin is
\* taken to stay what it was, and the loop goes on to the delay
SetPinFails ==
    /\ pc = "send_timing"
    /\ HasNext
    /\ pin' = pin
    /\ failed' = TRUE
    /\ log' = Append(log, [op |-> PinOp(level), us |-> 0])
    /\ ops' = ops + 1
    /\ pc' = AfterPinError("delay")
    /\ UNCHANGED <<id, session, end, clock, level, k,
                   frames, started, ncalls, t0, t1, tsent>>
    /\ UNCHANGED <<asked, askedMs, kept, raw, live>>
    /\ UNCHANGED encoderVars

\* a blocking delay that never comes back
DelayUsStuck ==
    /\ pc = "delay"
    /\ UNCHANGED vars

\* the microseconds the k-th iteration holds the level
Hold(i) == Item(i)

\* delay_us(duration); level = !level
DelayUs ==
    /\ pc = "delay"
    /\ clock' = clock + Hold(k)
    /\ log' = Append(log, [op |-> "delay_us", us |-> Hold(k)])
    /\ ops' = ops + 1
    /\ level' = ~level
    /\ k' = k + 1
    /\ pc' = "send_timing"
    /\ UNCHANGED <<id, session, end, pin,
                   frames, started, ncalls, t0, t1, tsent>>
    /\ UNCHANGED encoderVars
    /\ UNCHANGED callerVars

\* an end of send_timing that carries the alternation one step on
FinalOpByLevel == IF level THEN "set_high" ELSE "set_low"

\* the pin operation that ends send_timing
FinalOp == "set_low"

\* let _ = self.pin.set_low(), after the loop
FinalLow ==
    /\ pc = "send_timing"
    /\ ~HasNext
    /\ pin' = LevelAfter(FinalOp)
    /\ log' = Append(log, [op |-> FinalOp, us |-> 0])
    /\ ops' = ops + 1
    /\ frames' = frames + 1
    /\ pc' = "check"
    /\ UNCHANGED <<id, session, end, clock, level, k,
                   started, ncalls, t0, t1, tsent>>
    /\ UNCHANGED encoderVars
    /\ UNCHANGED callerVars

\* the final set_low returns Err, which is dropped as well
FinalLowFails ==
    /\ pc = "send_timing"
    /\ ~HasNext
    /\ pin' = pin
    /\ failed' = TRUE
    /\ log' = Append(log, [op |-> FinalOp, us |-> 0])
    /\ ops' = ops + 1
    /\ frames' = frames + 1
    /\ pc' = AfterPinError("check")
    /\ UNCHANGED <<id, session, end, clock, level, k,
                   started, ncalls, t0, t1, tsent>>
    /\ UNCHANGED <<asked, askedMs, kept, raw, live>>
    /\ UNCHANGED encoderVars

EncoderStep ==
    \/ Preamble
    \/ TrId
    \/ TrChannel
    \/ TrCommand
    \/ TrStrength
    \/ TrChecksum
    \/ TrPad
    \/ Trailer

Next ==
    \/ \E n \in RawChannels : channel(n)
    \/ DropSession
    \/ \E s \in Strengths, d \in Durations : shock(s, d) /\ Direct /\ Forget
    \/ \E s \in Strengths, ms \in MsDurations : shock_ms(s, ms) /\ Forget
    \/ \E s \in Strengths, d \in Durations :
           vibrate(s, d) /\ Direct /\ Forget
    \/ \E s \in Strengths, ms \in MsDurations : vibrate_ms(s, ms) /\ Forget
    \/ \E d \in Durations : beep(d) /\ Direct /\ Forget
    \/ \E ms \in MsDurations : beep_ms(ms) /\ Forget
    \/ EncoderStep
    \/ ComputeEnd
    \/ LoopCheck
    \/ SetPin
    \/ DelayUs
    \/ FinalLow

Spec == Init /\ [][Next]_vars

\* the encoder on a wide range of inputs: calls with an empty window
InitEnc == InitWith(EncIds)

NextEnc ==
    \/ \E n \in RawChannels : channel(n)
    \/ DropSession
    \/ \E s \in EncStrengths : shock(s, 0) /\ Direct /\ Forget
    \/ \E s \in EncStrengths : vibrate(s, 0) /\ Direct /\ Forget
    \/ beep(0) /\ Direct /\ Forget
    \/ EncoderStep
    \/ ComputeEnd
    \/ LoopCheck

SpecEnc == InitEnc /\ [][NextEnc]_vars

\* two calls in a row, the caller comparing the frame of the second with
\* the frame of the first: calls with an empty window
PairIds == {3365, 65535}
PairStrengths == {1, 99, 255}

InitPair == InitWith(PairIds)

NextPair ==
    \/ \E n \in RawChannels : channel(n)
    \/ DropSession
    \/ \E s \in PairStrengths : shock(s, 0) /\ Direct /\ Keep
    \/ \E s \in PairStrengths : vibrate(s, 0) /\ Direct /\ Keep
    \/ beep(0) /\ Direct /\ Keep
    \/ EncoderStep
    \/ ComputeEnd
    \/ LoopCheck

SpecPair == InitPair /\ [][NextPair]_vars

\* command calls on a pin whose operations may return an error
NextFail ==
    \/ channel(0)
    \/ DropSession
    \/ \E d \in Durations : beep(d) /\ Direct /\ Forget
    \/ EncoderStep
    \/ ComputeEnd
    \/ LoopCheck
    \/ SetPin
    \/ SetPinFails
    \/ DelayUs
    \/ FinalLow
    \/ FinalLowFails

SpecFail == Init /\ [][NextFail]_vars

\* the steps send_command takes by itself once it was called: it blocks its
\* caller and nothing can cancel it, so a step that can be taken is taken
CallStep ==
    \/ EncoderStep
    \/ ComputeEnd
    \/ LoopCheck
    \/ SetPin
    \/ DelayUs
    \/ FinalLow

\* command calls that run on once started
NextLive ==
    \/ channel(0)
    \/ DropSession
    \/ \E d \in Durations : beep(d) /\ Direct /\ Forget
    \/ CallStep

SpecLive == Init /\ [][NextLive]_vars /\ WF_vars(CallStep)

\* the pulse driver on frames of every small length, zero entries included
MaxFrameLen == 4
DrvEntries == {0, ZERO_LEN, ONE_LEN}
DrvFrames == UNION {[1..n -> DrvEntries] : n \in 0..MaxFrameLen}

InitDrv ==
    /\ id \in Ids
    /\ session = 0
    /\ pc = "send_timing"
    /\ chan = 0
    /\ cmd = Beep
    /\ strength = 0
    /\ duration = 1
    /\ checksum = 0
    /\ \E f \in DrvFrames :
        /\ timings = [i \in 1..BufLen |-> IF i <= Len(f) THEN f[i] ELSE 0]
        /\ idx = Len(f)
    /\ end = 1
    /\ clock = 0
    /\ level = FALSE
    /\ k = 0
    /\ pin = "unset"
    /\ log = <<>>
    /\ frames = 0
    /\ started = 1
    /\ ops = 0
    /\ ncalls = 1
    /\ t0 = 0
    /\ t1 = 0
    /\ tsent = 0
    /\ hi = Len(SubSeq(timings, 1, idx))
    /\ asked = Asked("beep", 0, 1)
    /\ askedMs = NoMs
    /\ kept = NoFrame
    /\ raw = 0
    /\ live = 1
    /\ failed = FALSE

NextDrv ==
    \/ SetPin
    \/ DelayUs
    \/ FinalLow

SpecDrv == InitDrv /\ [][NextDrv]_vars

\* ------------------------------------------------------------ properties
\* the frame of the current call is complete
Built ==
    \/ pc \in {"deadline", "check", "send_timing", "delay"}
    \/ pc = "idle" /\ ncalls > 0

\* the last call has returned
Returned == pc = "idle" /\ ncalls > 0

\* a frame is being driven
Sending == pc \in {"send_timing", "delay"}

\* entry j of the buffer, counted from 0 as the code does
Entry(j) == timings[j + 1]

\* the two entries of bit j of the frame, bits counted from 0
Pair(j) == <<Entry(3 + 2 * j), Entry(4 + 2 * j)>>

OnePair == <<804, 212>>
ZeroPair == <<292, 724>>

\* the bit a pair stands for
BitOf(j) == IF Pair(j) = OnePair THEN 1 ELSE 0

\* the value of the n frame bits from bit `first` on, first bit highest
RECURSIVE FieldValue(_, _)
FieldValue(first, n) ==
    IF n = 0 THEN 0
    ELSE 2 * FieldValue(first, n - 1) + BitOf(first + n - 1)

\* the n low bits of v, highest first, each as its pair of entries
RECURSIVE PairsOf(_, _)
PairsOf(v, n) ==
    IF n = 0 THEN <<>>
    ELSE (IF (v \div (2 ^ (n - 1))) % 2 = 1 THEN OnePair ELSE ZeroPair)
         \o PairsOf(v, n - 1)

\* the byte sum the checksum is said to be
ByteSum(i, ch, command, s) ==
    ((i \div 256) + (i % 256) + ch + command + s) % 256

\* the frame as the wire format lays it out
WireFrame(i, ch, command, s) ==
    <<840, 1440, 724>>
    \o PairsOf(i, 16) \o PairsOf(ch, 4) \o PairsOf(command, 4)
    \o PairsOf(s, 8) \o PairsOf(ByteSum(i, ch, command, s), 8)
    \o PairsOf(0, 2)
    \o <<292, 1476>>

\* C1: the checksum bit-field of the frame (bits 32..39) holds the byte sum
\* of id>>8, id&0xFF, the channel code, the command code and the strength,
\* modulo 256, written as well-formed pairs; for id 0x0D25, Channel1, Beep,
\* strength 0 it reads 00110101.
C1_ChecksumField ==
    Built =>
        /\ \A j \in 32..39 : Pair(j) \in {OnePair, ZeroPair}
        /\ FieldValue(32, 8) = ByteSum(id, chan, cmd, strength)
        /\ (id = 3365 /\ chan = 0 /\ cmd = Beep /\ strength = 0) =>
               [j \in 1..8 |-> BitOf(31 + j)] = <<0, 0, 1, 1, 0, 1, 0, 1>>

\* the checksum of a call whose byte sum passes 255 is in the frame
C1_Witness ==
    /\ pc = "deadline"
    /\ id = 65535
    /\ chan = 2
    /\ cmd = Vibrate
    /\ strength = 255
    /\ FieldValue(32, 8) = 1

\* C2: the built frame is the preamble 840, 1440, 724, then the id (16
\* bits), channel (4), command (4), strength (8), checksum (8) and 2 zero
\* bits, highest bit first, a one as (804, 212) and a zero as (292, 724),
\* then the trailer 292, 1476.
C2_FrameLayout ==
    Built => Slice = WireFrame(id, chan, cmd, strength)

C2_Witness ==
    /\ pc = "deadline"
    /\ id = 32769
    /\ chan = 1
    /\ cmd = Shock
    /\ strength = 99
    /\ Slice = WireFrame(32769, 1, 1, 99)

\* C8: the built frame has 89 entries whatever the inputs, its preamble and
\* trailer entries are the fixed ones and the buffer is zero behind it.
C8_FrameLength ==
    Built =>
        /\ idx = 89
        /\ Len(Slice) = 89
        /\ <<Entry(0), Entry(1), Entry(2)>> = <<840, 1440, 724>>
        /\ <<Entry(87), Entry(88)>> = <<292, 1476>>
        /\ \A j \in 89..(BufLen - 1) : Entry(j) = 0

C8_Witness ==
    /\ pc = "deadline"
    /\ id = 0
    /\ chan = 0
    /\ strength = 0
    /\ idx = 89

\* C9: each of the 42 bit pairs of the built frame is (292, 724) or
\* (804, 212), so its two entries sum to 1016.
C9_PairSum ==
    Built =>
        \A j \in 0..41 :
            /\ Pair(j) \in {ZeroPair, OnePair}
            /\ Entry(3 + 2 * j) + Entry(4 + 2 * j) = 1016

C9_Witness ==
    /\ pc = "deadline"
    /\ id = 65280
    /\ Pair(0) = OnePair
    /\ Pair(8) = ZeroPair
    /\ Pair(41) = ZeroPair

\* C3: a command call with duration 0 sends no frame: from its entry to its
\* return no frame is started and no pin-set or delay operation happens.
C3_ZeroDuration ==
    (ncalls > 0 /\ duration = 0) =>
        /\ ops = 0
        /\ started = 0
        /\ frames = 0
        /\ ~Sending

C3_Witness ==
    /\ Returned
    /\ duration = 0
    /\ cmd = Vibrate
    /\ ops = 0

\* C4 as claimed: a call whose duration is above 0 and below one frame's
\* time has sent at least one complete frame when it returns.
C4_AtLeastOneFrame ==
    (Returned /\ 0 < duration /\ duration < FrameTime) => frames >= 1

\* the first loop check of the current call has just started the first
\* frame, or the call has returned
FirstCheckDone ==
    \/ pc = "send_timing" /\ k = 0 /\ frames = 0
    \/ Returned

\* C4 as amended: the deadline is one now() reading plus the duration and
\* nothing is sent before the first loop check, which reads the clock
\* again; a call with 0 < duration < one frame's time sends at least one
\* complete frame if the clock gained less than the duration between the
\* two readings, and sends no frame otherwise.
C4_FirstCheckDecides ==
    /\ (pc = "check" /\ started = 0) => (end = t0 + duration /\ ops = 0)
    /\ (FirstCheckDone /\ 0 < duration /\ duration < FrameTime) =>
           /\ t1 >= t0
           /\ (t1 - t0 < duration) => started >= 1
           /\ (Returned /\ t1 - t0 < duration) => frames >= 1
           /\ (t1 - t0 >= duration) => (started = 0 /\ ops = 0)

C4_Witness ==
    /\ Returned
    /\ duration = 1
    /\ t1 = t0
    /\ frames = 1

\* C5: the deadline is looked at only between frames: a frame is started
\* only on a reading below the deadline, the loop over a started frame ends
\* only after its last entry, every started frame is completed, and the
\* clock at the return is past the deadline by less than the time the last
\* frame took from its check to the check that ended the call (the sum of
\* its entries plus the lag of that reading).
C5_DeadlineBetweenFrames ==
    /\ Sending => (tsent < end /\ started = frames + 1)
    /\ (pc = "send_timing" /\ ~HasNext) => k = 89
    /\ pc \in {"check", "idle"} => started = frames
    /\ (pc = "check" /\ frames > 0) =>
           (Len(log) = 2 * 89 + 1 /\ clock = tsent + FrameTime)
    /\ (Returned /\ frames > 0) =>
           /\ clock - end < clock - tsent
           /\ clock - tsent \in {FrameTime + lag : lag \in Lags}
    /\ (Returned /\ frames = 0) => clock - end \in {lag - duration : lag \in Lags}

C5_Witness ==
    /\ Returned
    /\ frames = 2
    /\ tsent = end - 1
    /\ clock - end >= FrameTime - 1

\* C6: when send_timing has returned, the last operation on the pin is
\* set_low and the pin is low, whatever the number of entries driven.
C6_EndsLow ==
    pc = "check" =>
        /\ log # <<>>
        /\ log[Len(log)] = [op |-> "set_low", us |-> 0]
        /\ pin = "low"

\* a frame of two entries: the loop's last pin operation was set_high
C6_Witness ==
    /\ pc = "check"
    /\ k = 2
    /\ log[3].op = "set_high"
    /\ log[5].op = "set_low"

\* the pin operation of entry j of an alternation that starts low
ParityOp(j) == IF j % 2 = 0 THEN "set_low" ELSE "set_high"

\* C7: send_timing sets the pin low for an even entry and high for an odd
\* one, then delays for that entry's microseconds, then goes on to the next
\* entry: the operations of a frame are those of entries 0, 1, 2, ... in
\* order, none left out or done twice.
C7_Alternation ==
    /\ pc = "send_timing" =>
           /\ Len(log) = 2 * k
           /\ k > 0 =>
                  /\ log[2 * k - 1] = [op |-> ParityOp(k - 1), us |-> 0]
                  /\ log[2 * k] = [op |-> "delay_us", us |-> Entry(k - 1)]
    /\ pc = "delay" =>
           /\ Len(log) = 2 * k + 1
           /\ log[2 * k + 1] = [op |-> ParityOp(k), us |-> 0]
    /\ (pc = "check" /\ frames > 0) =>
           /\ Len(log) = 2 * idx + 1
           /\ \A j \in 0..(idx - 1) :
                  /\ log[2 * j + 1] = [op |-> ParityOp(j), us |-> 0]
                  /\ log[2 * j + 2] = [op |-> "delay_us", us |-> Entry(j)]
           /\ clock = tsent + FrameTime

C7_Witness ==
    /\ pc = "send_timing"
    /\ k = 2
    /\ log[3].op = "set_high"
    /\ log[4] = [op |-> "delay_us", us |-> 1440]

\* C10: a frame of beep or beep_ms has command field 3, eight zero strength
\* bits and the checksum of strength 0, in the buffer and as driven.
C10_BeepStrengthZero ==
    (ncalls > 0 /\ cmd = Beep) =>
        /\ strength = 0
        /\ Built =>
               /\ FieldValue(20, 4) = 3
               /\ \A j \in 24..31 : Pair(j) = ZeroPair
               /\ FieldValue(32, 8) = ByteSum(id, chan, 3, 0)
        /\ (pc = "check" /\ frames > 0) =>
               /\ \A e \in 51..66 :
                      log[2 * e + 2].us = (IF e % 2 = 1 THEN 292 ELSE 724)
               /\ <<log[2 * 47 + 2].us, log[2 * 49 + 2].us>> = <<804, 804>>

C10_Witness ==
    /\ pc = "check"
    /\ cmd = Beep
    /\ frames = 1
    /\ duration = 704
    /\ log[2 * 51 + 2].us = 292

\* the command code of a command method
MethodCode(m) ==
    CASE m = "shock" -> Shock
      [] m = "vibrate" -> Vibrate
      [] m = "beep" -> Beep
      [] OTHER -> 0

\* a call is between its entry and its return
InCall == pc \notin {"idle", "panicked"}

\* C11: shock and vibrate hand their arguments on as they are: command code
\* 1 or 2, the caller's strength (0..255, nothing clamped) and the
\* session's channel are what send_command works with and what the frame's
\* fields hold, and the deadline is the reading plus the caller's duration.
C11_PassThrough ==
    (ncalls > 0 /\ asked.method \in {"shock", "vibrate"}) =>
        /\ cmd = MethodCode(asked.method)
        /\ strength = asked.strength
        /\ duration = asked.duration
        /\ InCall => chan = session
        /\ pc \in {"deadline", "check"} =>
               /\ FieldValue(16, 4) = session
               /\ FieldValue(20, 4) = MethodCode(asked.method)
               /\ FieldValue(24, 8) = asked.strength
        /\ pc = "check" => end = t0 + asked.duration

C11_Witness ==
    /\ pc = "check"
    /\ asked = Asked("shock", 255, 47445)
    /\ session = 2
    /\ FieldValue(24, 8) = 255
    /\ end = t0 + 47445

\* the entries of the strength and checksum bit-fields
StrengthEntries == 51..66
ChecksumEntries == 67..82

\* C12: two calls with the same id, channel and command and different
\* strengths build frames of 89 entries that are equal at every entry
\* outside the strength field (51..66) and the checksum field (67..82), and
\* that differ inside the strength field.
C12_OnlyStrengthDiffers ==
    (Built /\ ncalls >= 2 /\ kept.chan = chan /\ kept.cmd = cmd
           /\ kept.strength # strength) =>
        /\ Len(kept.frame) = 89
        /\ idx = 89
        /\ \A j \in (0..88) \ (StrengthEntries \cup ChecksumEntries) :
               kept.frame[j + 1] = Entry(j)
        /\ \E j \in StrengthEntries : kept.frame[j + 1] # Entry(j)

\* vibrate with strength 1, then vibrate with strength 99
C12_Witness ==
    /\ pc = "deadline"
    /\ id = 3365
    /\ chan = 0
    /\ cmd = Vibrate
    /\ kept.cmd = Vibrate
    /\ kept.chan = 0
    /\ kept.strength = 1
    /\ strength = 99
    /\ kept.frame[54] # Entry(53)

\* C13: a session exists only for a selector in {0, 1, 2} and its channel
\* code is that selector; channel() with any other selector panics with no
\* session made, and that step performs no pin, delay or clock operation
\* and leaves the buffer and the frame counts as they were.
C13_ChannelSelector ==
    /\ [](session # NoSession => (session = raw /\ raw \in {0, 1, 2}))
    /\ []((raw # NoRaw /\ raw \notin {0, 1, 2}) =>
              (pc = "panicked" /\ session = NoSession /\ live = 0))
    /\ [][(raw' # raw /\ raw' \notin {0, 1, 2}) =>
              /\ pc' = "panicked"
              /\ session' = NoSession
              /\ UNCHANGED <<clock, pin, log, ops, frames, started,
                             timings, idx, end>>]_vars

C13_Witness ==
    /\ pc = "panicked"
    /\ raw = 3
    /\ session = NoSession
    /\ ncalls = 1
    /\ frames = 1

\* the operations logged for a whole frame are those of its entries in order
DrivenAsBuilt ==
    /\ Len(log) = 2 * idx + 1
    /\ \A j \in 0..(idx - 1) :
           /\ log[2 * j + 1] = [op |-> ParityOp(j), us |-> 0]
           /\ log[2 * j + 2] = [op |-> "delay_us", us |-> Entry(j)]
    /\ log[2 * idx + 1] = [op |-> "set_low", us |-> 0]

\* C14: whichever pin operations return an error, the call is never left
\* with an error, every frame is the same sequence of pin attempts and
\* delays, each entry is attempted once (179 operations a frame), the
\* clock moves by the frame's delays alone, and the call returns only on a
\* reading at or past the deadline with every started frame completed.
C14_PinErrorsIgnored ==
    /\ pc # "failed"
    /\ pc = "send_timing" => Len(log) = 2 * k
    /\ pc = "delay" =>
           (Len(log) = 2 * k + 1
            /\ log[2 * k + 1] = [op |-> ParityOp(k), us |-> 0])
    /\ (pc = "check" /\ frames > 0) =>
           /\ DrivenAsBuilt
           /\ ops = (2 * 89 + 1) * frames
           /\ clock = tsent + FrameTime
    /\ Returned => (clock >= end /\ frames = started
                    /\ ops = (2 * 89 + 1) * frames)

\* two frames sent although every pin operation of the call failed
C14_Witness ==
    /\ Returned
    /\ failed
    /\ pin = "unset"
    /\ frames = 2

C16_MsExact ==
    (askedMs # NoMs /\ raw \in {0, 1, 2}) =>
        /\ pc # "panicked"
        /\ duration = asked.duration
        /\ duration % 1000 = 0
        /\ duration \div 1000 = askedMs

\* C17: at most one session is alive at any time and a command call runs on
\* the live one; from the first pin-set of a frame to its final set_low no
\* call begins, no session is made or dropped and the frame, its call and
\* its channel stay the same, so the operations logged for a completed
\* frame are those of that one frame in order.
C17_NoInterleaving ==
    /\ [](live \in {0, 1} /\ (live = 1 <=> session # NoSession))
    /\ [](InCall => (live = 1 /\ chan = session))
    /\ [][Sending =>
              /\ ncalls' = ncalls
              /\ session' = session
              /\ live' = live
              /\ asked' = asked
              /\ <<chan', cmd', strength', checksum'>> =
                     <<chan, cmd, strength, checksum>>
              /\ <<timings', idx'>> = <<timings, idx>>
              /\ started' = started
              /\ (Sending' => Len(log') = Len(log) + 1)
              /\ (~Sending' => (pc' = "check" /\ frames' = frames + 1))]_vars
    /\ []((pc = "check" /\ frames > 0) => DrivenAsBuilt)

\* the second call, made on a second session, is in the middle of a frame
C17_Witness ==
    /\ Sending
    /\ ncalls = 2
    /\ live = 1
    /\ session = 1
    /\ k = 40

\* C18: the device id never changes; whenever a call's frame is complete
\* (before the deadline is computed, at every loop check, during every
\* repetition and after the return) the buffer holds the encoder's output
\* for the constructed id, the session's channel and the call's command
\* and strength, whatever calls came before; the delays of every completed
\* repetition are that frame's entries; and no step of the repeat loop or
\* of the pulse driver writes the buffer.
C18_FreshEncode ==
    /\ [][id' = id]_vars
    /\ []((pc \in {"deadline", "check"} \/ (Sending /\ k = 0) \/ Returned) =>
              /\ idx = 89
              /\ cmd = MethodCode(asked.method)
              /\ strength = (IF asked.method = "beep" THEN 0
                             ELSE asked.strength)
              /\ (InCall => chan = session)
              /\ SubSeq(timings, 1, idx) = WireFrame(id, chan, cmd, strength))
    /\ []((pc = "check" /\ frames > 0) =>
              \A j \in 0..88 :
                  log[2 * j + 2].us = WireFrame(id, chan, cmd, strength)[j + 1])
    /\ [][(pc \in {"deadline", "check", "send_timing", "delay"}) =>
              <<timings', idx', checksum', chan', cmd', strength'>> =
                  <<timings, idx, checksum, chan, cmd, strength>>]_vars

\* the second call since construction, a vibrate at strength 255, has sent
\* its frame once and is at the loop check again
C18_Witness ==
    /\ ncalls = 2
    /\ pc = "check"
    /\ frames = 1
    /\ started = 1
    /\ asked.method = "vibrate"
    /\ asked.strength = 255

\* the lengths a frame entry can have
EntryLens == {212, 292, 724, 804, 840, 1440, 1476}

\* C19: each of the 89 entries of a built frame is one of 212, 292, 724,
\* 804, 840, 1440, 1476, so none is zero and the first zero of the buffer
\* is the sentinel at index 89; every pass of send_timing therefore stops
\* at k = 89 and a completed frame is 89 pin-set/delay steps and the final
\* set_low, the delays being the 89 entries in order.
C19_SentinelNeverTruncates ==
    /\ (pc \in {"deadline", "check"} \/ Returned) =>
           /\ idx = 89
           /\ \A j \in 0..88 : Entry(j) \in EntryLens
           /\ Entry(89) = 0
    /\ (pc = "send_timing" /\ ~HasNext) => k = 89
    /\ Sending => (k <= 89 /\ (k < 89 => HasNext))
    /\ (pc = "check" /\ frames > 0) =>
           /\ k = 89
           /\ Len(log) = 2 * 89 + 1
           /\ ops = (2 * 89 + 1) * frames
           /\ \A j \in 0..88 : log[2 * j + 2].us = Entry(j)
           /\ log[2 * 89 + 1].op = "set_low"

\* a frame was driven to its end: 89 steps and the final set_low
C19_Witness ==
    /\ pc = "check"
    /\ frames = 1
    /\ k = 89
    /\ Len(log) = 179

\* the value of idx when send_command is at a place of its body
IdxAt(place) ==
    CASE place = "preamble" -> 0
      [] place = "tr_id" -> 3
      [] place = "tr_channel" -> 3 + 2 * 16
      [] place = "tr_command" -> 3 + 2 * 20
      [] place = "tr_strength" -> 3 + 2 * 24
      [] place = "tr_checksum" -> 3 + 2 * 32
      [] place = "tr_pad" -> 3 + 2 * 40
      [] place = "trailer" -> 3 + 2 * 42
      [] OTHER -> 89

\* C20: no write of send_command is out of range: the highest index written
\* is below 128 at every point, the encoder never panics, the index is 0,
\* 3, 35, 43, 51, 67, 83, 87 before the preamble and each bit-field and 89
\* once the frame is built, every index below it has been written (steps of
\* one, highest index idx - 1), the bit-fields write nothing at or above
\* 87, and the last write is the sentinel at index 89.
C20_IndexInBounds ==
    /\ hi < BufLen
    /\ pc = "panicked" => raw \notin {0, 1, 2}
    /\ (InCall \/ Returned) => idx = IdxAt(pc)
    /\ pc \in {"preamble", "tr_id", "tr_channel", "tr_command", "tr_strength",
               "tr_checksum", "tr_pad", "trailer"} =>
           /\ hi = idx - 1
           /\ hi < 87
           /\ \A j \in 0..hi : Entry(j) # 0
           /\ \A j \in idx..(BufLen - 1) : Entry(j) = 0
    /\ (pc \in {"deadline", "check"} \/ Returned) =>
           /\ hi = 89
           /\ idx = 89
           /\ Entry(89) = 0

\* a frame for the widest id and strength has been built
C20_Witness ==
    /\ pc = "deadline"
    /\ id = 65535
    /\ strength = 255
    /\ idx = 89
    /\ hi = 89

====
